---- MODULE Spec2Model ----
(***************************************************************************)
(* Model of the reference-counted frame pool of src/main.rs: the frames    *)
(* (InnerFrame.rc, InnerFrame.buf), FrameManager (frames, last_updated),   *)
(* WasmDemoRunner::new and WasmDemoRunner::tick, and the handle operations *)
(* (Clone, Drop, Deref) a renderer thread performs on the handles it got   *)
(* from last_updated.                                                      *)
(*                                                                         *)
(* The producer's tick is split at its atomic operations: every load of a  *)
(* frame's rc in get_free_frame's scan and every byte written by           *)
(* copy_from_memory is a step of its own, so that the consumers' clones    *)
(* and drops interleave with them as the atomics of the build do.          *)
(***************************************************************************)
EXTENDS Integers, Sequences, FiniteSets

(* ---- sizes ---------------------------------------------------------- *)

\* FrameManager::new builds exactly five frames.
NumFrames == 5

\* `bytes_required = width * height * 4`: four bytes per RGBA pixel.
BytesPerPixel == 4

\* The image is 256 x 256 in the source; the model scales it down.
Width == 1

Height == 1

\* wasmer::WASM_PAGE_SIZE is 65536 in the source; the model scales it down.
PageSize == 4

\* The exported memory of the module has 0..MaxInitPages pages when loaded.
MaxInitPages == 1

\* A program that animates draws one of NumImages pictures at each step.
NumImages == 2

\* A slow renderer holds up to MaxHandles handles at a time.
MaxHandles == 5

\* A renderer that keeps up holds up to FewHandles handles at a time.
FewHandles == 1

Slots == 1 .. NumFrames

\* Option<Frame>::None; Some(frame) is the frame's slot.
None == 0

BytesRequired == Width * Height * BytesPerPixel

\* Byte i (1-based) of picture k.
Pixel(k, i) == (k * 16 + i) % 256

Zeros(n) == [i \in 1 .. n |-> 0]

\* The runs explored: a program that draws a single picture under a slow
\* renderer, and a program that animates under a renderer that keeps up.
Scenarios ==
    {[pictures |-> 1, capacity |-> MaxHandles, pages |-> 0]}
    \cup {[pictures |-> NumImages, capacity |-> FewHandles, pages |-> p] :
             p \in 0 .. MaxInitPages}

VARIABLES
    pictures,      \* how many pictures the loaded program draws
    capacity,      \* how many handles the renderer holds at most
    pc,            \* where the driver is: "start", "built", "idle", the steps of tick, "panicked", "dropped"
    state,         \* WasmDemoRunner.state
    memory,        \* the engine's exported memory "image_buffer", a sequence of bytes
    rc,            \* InnerFrame.rc of each slot
    buf,           \* InnerFrame.buf of each slot
    freed,         \* the slot's InnerFrame has been given back to the allocator
    last_updated,  \* FrameManager.last_updated
    frame,         \* tick's local `frame`
    scanIdx,       \* the slot get_free_frame's iterator is at
    copyPos,       \* bytes copy_from_memory has written so far
    lockHeld,      \* InnerFrame.lock of the frame being written is held
    held,          \* number of handles the renderer holds on each slot
    result,        \* how the last tick ended: "none", "ok", "err", "panic"
    before,        \* last_updated and its bytes when the current/last tick was entered
    observed,      \* what last_published returned since the last publish
    succeeded,     \* a tick has returned Ok
    raced          \* a slot the running scan has passed lost its last renderer handle

vars == << pictures, capacity, pc, state, memory, rc, buf, freed, last_updated, frame, scanIdx,
           copyPos, lockHeld, held, result, before, observed, succeeded, raced >>

(* ---- Frame ------------------------------------------------------------ *)

\* Frame::new: rc starts at 1, buf is `size` zero bytes.
FrameNew(size) == [rc |-> 1, buf |-> Zeros(size)]

\* Frame::count
Count(s) == rc[s]

\* Deref for Frame: the bytes seen through a handle on slot s.
Deref(s) == buf[s]

\* A clone that forgets to increment.
CloneRcForget(r, s) == r

\* A clone that increments twice.
CloneRcTwice(r, s) == [r EXCEPT ![s] = @ + 2]

\* Clone for Frame: fetch_add(1) on rc.
CloneRc(r, s) == [r EXCEPT ![s] = @ + 1]

\* A drop that forgets to decrement.
DropRcLeak(r, s) == r

\* Drop for Frame: fetch_sub(1) on rc.
DropRc(r, s) == [r EXCEPT ![s] = @ - 1]

\* A drop that releases the storage one handle too early.
DropFreedEarly(f, r, s) == [f EXCEPT ![s] = @ \/ (r[s] <= 2)]

\* Drop for Frame: the storage is released when the old count was 1.
DropFreed(f, r, s) == [f EXCEPT ![s] = @ \/ (r[s] = 1)]

\* Dropping an Option<Frame> without dropping the frame in it.
DropOptRcLeak(r, o) == r

\* Dropping an Option<Frame>.
DropOptRc(r, o) == IF o = None THEN r ELSE DropRc(r, o)

DropOptFreed(f, r, o) == IF o = None THEN f ELSE DropFreed(f, r, o)

RECURSIVE SumTo(_, _)
SumTo(f, n) == IF n = 0 THEN 0 ELSE f[n] + SumTo(f, n - 1)

\* Handles the renderer holds, over all slots.
TotalHeld == SumTo(held, NumFrames)

Snapshot(o) == [frame |-> o, bytes |-> IF o = None THEN << >> ELSE buf[o]]

NoCall == [frame |-> -1, bytes |-> << >>]

(* ---- construction ------------------------------------------------------ *)

Init ==
    /\ \E sc \in Scenarios :
          /\ pictures = sc.pictures
          /\ capacity = sc.capacity
          /\ memory = Zeros(sc.pages * PageSize)
    /\ pc = "start"
    /\ state = "Unbuilt"
    /\ rc = [s \in Slots |-> 0]
    /\ buf = [s \in Slots |-> << >>]
    /\ freed = [s \in Slots |-> FALSE]
    /\ last_updated = None
    /\ frame = None
    /\ scanIdx = 0
    /\ copyPos = 0
    /\ lockHeld = FALSE
    /\ held = [s \in Slots |-> 0]
    /\ result = "none"
    /\ before = Snapshot(None)
    /\ observed = NoCall
    /\ succeeded = FALSE
    /\ raced = FALSE

\* `bytes_required / WASM_PAGE_SIZE + 1`
PagesRequired(bytes) == bytes \div PageSize + 1

\* Memory::grow(delta): delta more pages of zeros.
Grow(mem, delta) == mem \o Zeros(delta * PageSize)

\* A manager that starts with its first frame published.
FrameManagerNewPublished(size) ==
    [last_updated |-> 1,
     rc |-> [s \in Slots |-> IF s = 1 THEN 2 ELSE 1],
     buf |-> [s \in Slots |-> Zeros(size)]]

\* FrameManager::new: nothing published, five new frames.
FrameManagerNew(size) ==
    [last_updated |-> None,
     rc |-> [s \in Slots |-> FrameNew(size).rc],
     buf |-> [s \in Slots |-> FrameNew(size).buf]]

\* A runner that is built idle.
InitialStateIdle == "Idle"

\* `state: State::Running` of the runner new() returns.
InitialState == "Running"

\* WasmDemoRunner::new
New ==
    /\ pc = "start"
    /\ memory' = IF Len(memory) < BytesRequired
                 THEN Grow(memory, PagesRequired(BytesRequired))
                 ELSE memory
    /\ last_updated' = FrameManagerNew(BytesRequired).last_updated
    /\ rc' = FrameManagerNew(BytesRequired).rc
    /\ buf' = FrameManagerNew(BytesRequired).buf
    /\ state' = InitialState
    /\ pc' = "built"
    /\ UNCHANGED << raced, pictures, capacity, freed, frame, scanIdx, copyPos, lockHeld,
                    held, result, before, observed, succeeded >>

\* WasmDemoRunner::run, called on the thread main spawns: its body is empty,
\* the ticks of the driver come after it.
Run ==
    /\ pc = "built"
    /\ pc' = "idle"
    /\ UNCHANGED << raced, pictures, capacity, state, memory, rc, buf, freed,
                    last_updated, frame, scanIdx, copyPos, lockHeld, held,
                    result, before, observed, succeeded >>

(* ---- WasmDemoRunner::tick ----------------------------------------------- *)

\* `self.frame_manager.last_updated = None;` drops the published handle.
TickBegin ==
    /\ pc = "idle"
    /\ before' = Snapshot(last_updated)
    /\ last_updated' = None
    /\ rc' = DropOptRc(rc, last_updated)
    /\ freed' = DropOptFreed(freed, rc, last_updated)
    /\ pc' = "cleared"
    /\ UNCHANGED << raced, succeeded, pictures, capacity, state, memory, buf, frame, scanIdx, copyPos, lockHeld,
                    held, result, observed >>

\* The memory after the engine's step drew picture k into it.
StepMemory(mem, k) ==
    [i \in 1 .. Len(mem) |-> IF i <= BytesRequired THEN Pixel(k, i) ELSE mem[i]]

\* get_function("tick") and call() both succeed: the step has drawn a picture.
TickStep ==
    /\ pc = "cleared"
    /\ \E k \in 1 .. pictures : memory' = StepMemory(memory, k)
    /\ pc' = "scan"
    /\ scanIdx' = 1
    /\ UNCHANGED << raced, succeeded, pictures, capacity, state, rc, buf, freed, last_updated, frame, copyPos,
                    lockHeld, held, result, before, observed >>

\* get_function("tick") finds no function, or call() traps: `.expect` panics.
TickStepFault ==
    /\ pc = "cleared"
    /\ pc' = "panicked"
    /\ result' = "panic"
    /\ UNCHANGED << raced, succeeded, pictures, capacity, state, memory, rc, buf, freed, last_updated, frame,
                    scanIdx, copyPos, lockHeld, held, before, observed >>

\* A find that takes a frame with one holder besides the pool for a free one.
IsFreeOffByOne(s) == Count(s) <= 2

\* A find that takes the first frame whatever its count.
IsFreeAlways(s) == Count(s) >= 1

\* The predicate of get_free_frame's find.
IsFree(s) == Count(s) = 1

\* get_free_frame, one slot of its scan: the first slot whose count is 1 is
\* cloned into `frame`; past the last slot it is "couldn't find free frame"
\* and tick returns the error.
TickScan ==
    /\ pc = "scan"
    /\ IF IsFree(scanIdx)
       THEN /\ frame' = scanIdx
            /\ rc' = CloneRc(rc, scanIdx)
            /\ pc' = "acquired"
            /\ scanIdx' = 0
            /\ raced' = FALSE
            /\ UNCHANGED result
       ELSE IF scanIdx < NumFrames
       THEN /\ scanIdx' = scanIdx + 1
            /\ UNCHANGED << frame, rc, pc, result, raced >>
       ELSE /\ scanIdx' = 0
            /\ pc' = "idle"
            /\ result' = "err"
            /\ raced' = FALSE
            /\ UNCHANGED << frame, rc >>
    /\ UNCHANGED << succeeded, pictures, capacity, state, memory, buf, freed, last_updated, copyPos,
                    lockHeld, held, before, observed >>

\* MemoryView::read(0, buf) checks the range against the memory's size before
\* it copies anything.
ViewInBounds(mem, len) == len <= Len(mem)

\* get_memory("image_buffer")?.view(..), then copy_from_memory up to the bounds
\* check of view.read: the lock is taken; out of bounds is an error, `frame` is
\* dropped and tick returns it.
TickCopyBegin ==
    /\ pc = "acquired"
    /\ IF ViewInBounds(memory, BytesRequired)
       THEN /\ lockHeld' = TRUE
            /\ copyPos' = 0
            /\ pc' = "copying"
            /\ UNCHANGED << rc, freed, frame, result >>
       ELSE /\ rc' = DropRc(rc, frame)
            /\ freed' = DropFreed(freed, rc, frame)
            /\ frame' = None
            /\ pc' = "idle"
            /\ result' = "err"
            /\ UNCHANGED << lockHeld, copyPos >>
    /\ UNCHANGED << raced, succeeded, pictures, capacity, state, memory, buf, last_updated, scanIdx, held, before,
                    observed >>

\* A read that stops one byte short.
WriteByteShort(b, mem, i) == IF i = Len(b) THEN b ELSE [b EXCEPT ![i] = mem[i]]

\* The buffer after view.read has written its byte number i.
WriteByte(b, mem, i) == [b EXCEPT ![i] = mem[i]]

\* view.read(0, inner.buf.as_mut_slice()): one more byte; after the last one
\* the guard is released.
TickCopyByte ==
    /\ pc = "copying"
    /\ copyPos < BytesRequired
    /\ buf' = [buf EXCEPT ![frame] = WriteByte(@, memory, copyPos + 1)]
    /\ copyPos' = copyPos + 1
    /\ IF copyPos + 1 = BytesRequired
       THEN pc' = "copied" /\ lockHeld' = FALSE
       ELSE UNCHANGED << pc, lockHeld >>
    /\ UNCHANGED << raced, succeeded, pictures, capacity, state, memory, rc, freed, last_updated, frame, scanIdx,
                    held, result, before, observed >>

\* `self.frame_manager.last_updated = Some(frame.clone());`
TickPublish ==
    /\ pc = "copied"
    /\ last_updated' = frame
    /\ rc' = DropOptRc(CloneRc(rc, frame), last_updated)
    /\ freed' = DropOptFreed(freed, CloneRc(rc, frame), last_updated)
    /\ observed' = NoCall
    /\ pc' = "published"
    /\ UNCHANGED << raced, succeeded, pictures, capacity, state, memory, buf, frame, scanIdx, copyPos, lockHeld,
                    held, result, before >>

\* `Ok(())`: the local `frame` goes out of scope.
TickReturn ==
    /\ pc = "published"
    /\ rc' = DropRc(rc, frame)
    /\ freed' = DropFreed(freed, rc, frame)
    /\ frame' = None
    /\ copyPos' = 0
    /\ pc' = "idle"
    /\ result' = "ok"
    /\ before' = Snapshot(None)
    /\ succeeded' = TRUE
    /\ UNCHANGED << raced, pictures, capacity, state, memory, buf, last_updated,
                    scanIdx, lockHeld, held, observed >>

(* ---- the renderer ------------------------------------------------------- *)

\* The renderer reads frame_manager.last_updated between two ticks and clones
\* the frame it finds (the `view` of the runner). A renderer that holds all
\* the handles it can only looks: its clone is dropped at once.
LastPublished ==
    /\ pc = "idle"
    /\ observed' = Snapshot(last_updated)
    /\ IF last_updated # None /\ TotalHeld < capacity
       THEN /\ rc' = CloneRc(rc, last_updated)
            /\ held' = [held EXCEPT ![last_updated] = @ + 1]
       ELSE UNCHANGED << rc, held >>
    /\ UNCHANGED << raced, succeeded, pictures, capacity, pc, state, memory, buf, freed, last_updated, frame,
                    scanIdx, copyPos, lockHeld, result, before >>

\* The renderer clones a handle it holds.
ConsumerClone(s) ==
    /\ held[s] > 0
    /\ TotalHeld < capacity
    /\ rc' = CloneRc(rc, s)
    /\ held' = [held EXCEPT ![s] = @ + 1]
    /\ UNCHANGED << raced, succeeded, pictures, capacity, pc, state, memory, buf, freed, last_updated, frame,
                    scanIdx, copyPos, lockHeld, result, before, observed >>

\* The renderer drops a handle it holds.
ConsumerDrop(s) ==
    /\ held[s] > 0
    /\ rc' = DropRc(rc, s)
    /\ freed' = DropFreed(freed, rc, s)
    /\ held' = [held EXCEPT ![s] = @ - 1]
    /\ raced' = (raced \/ (pc = "scan" /\ s < scanIdx /\ held[s] = 1))
    /\ UNCHANGED << succeeded, pictures, capacity, pc, state, memory, buf, last_updated, frame, scanIdx,
                    copyPos, lockHeld, result, before, observed >>

(* ---- teardown ----------------------------------------------------------- *)

\* The runner is dropped (run() has returned, or tick's panic unwinds): the
\* five frames of FrameManager.frames are dropped, then last_updated.
Teardown ==
    /\ pc \in {"idle", "panicked"}
    /\ LET r1 == [s \in Slots |-> rc[s] - 1]
           f1 == [s \in Slots |-> freed[s] \/ rc[s] = 1]
       IN /\ rc' = DropOptRc(r1, last_updated)
          /\ freed' = DropOptFreed(f1, r1, last_updated)
    /\ last_updated' = None
    /\ pc' = "dropped"
    /\ UNCHANGED << raced, succeeded, pictures, capacity, state, memory, buf, frame, scanIdx, copyPos, lockHeld, held,
                    result, before, observed >>

Next ==
    \/ New
    \/ Run
    \/ TickBegin
    \/ TickStep
    \/ TickStepFault
    \/ TickScan
    \/ TickCopyBegin
    \/ TickCopyByte
    \/ TickPublish
    \/ TickReturn
    \/ LastPublished
    \/ \E s \in Slots : ConsumerClone(s)
    \/ \E s \in Slots : ConsumerDrop(s)
    \/ Teardown

Spec == Init /\ [][Next]_vars

TypeOK ==
    /\ \A s \in Slots : rc[s] >= 0 /\ held[s] >= 0
    /\ last_updated \in 0 .. NumFrames
    /\ frame \in 0 .. NumFrames

(* ---- properties --------------------------------------------------------- *)

\* The tick that was running has just ended in an error or a panic.
TickFailed == pc \in {"idle", "panicked"} /\ result \in {"err", "panic"}

\* C1 (as claimed): after a tick that failed, last_updated is the frame it was
\* when the tick was entered, with the same bytes.
C1_FailedTickKeepsPublished == TickFailed => Snapshot(last_updated) = before

\* C2: after a tick that returned Ok, last_updated is a frame whose bytes are
\* the first BytesRequired bytes of the engine's memory.
C2_PublishedEqualsMemory ==
    (pc = "idle" /\ result = "ok") =>
        /\ last_updated # None
        /\ Deref(last_updated) = SubSeq(memory, 1, BytesRequired)

\* C2 witness: a tick has succeeded on a memory that new() had to grow, and
\* the published bytes are a picture.
C2_Witness ==
    /\ pc = "idle" /\ result = "ok"
    /\ Len(memory) = PagesRequired(BytesRequired) * PageSize
    /\ last_updated # None
    /\ Deref(last_updated) # Zeros(BytesRequired)

\* C3: while copy_from_memory is writing a frame, the renderer holds no
\* handle on that frame.
C3_NoConsumerOnFrameBeingWritten == pc = "copying" => held[frame] = 0

\* C3 witness: the copy is half done while the renderer holds a handle (on
\* another frame).
C3_Witness ==
    /\ pc = "copying" /\ copyPos > 0 /\ copyPos < BytesRequired
    /\ TotalHeld > 0

C5_SelectsOnlyFree ==
    [][(pc = "scan" /\ pc' = "acquired") =>
          (Count(frame') = 1 /\ held[frame'] = 0)]_vars

\* C5 witness: the renderer holds a handle on slot 1 from an earlier tick and
\* get_free_frame has returned slot 2.
C5_Witness == pc = "acquired" /\ held[1] > 0 /\ frame = 2

\* C6: a step that leaves the renderer with a handle on a slot it held before
\* leaves that slot's bytes as they were.
C6_HeldBytesStable ==
    [][\A s \in Slots :
          (held[s] > 0 /\ held'[s] > 0) => Deref(s)' = Deref(s)]_vars

\* C6 witness: the renderer still holds slot 1 while a later tick has
\* published other bytes in slot 2.
C6_Witness ==
    /\ held[1] > 0 /\ last_updated = 2 /\ result = "ok" /\ pc = "idle"
    /\ Deref(2) # Deref(1)

\* Every slot is held by the renderer.
AllSlotsHeld == \A s \in Slots : held[s] > 0

\* C7 (as claimed): with NumFrames handles held by the renderer, no step of
\* get_free_frame returns a frame.
C7_FailsWithNHandles ==
    [][(pc = "scan" /\ TotalHeld = NumFrames) => pc' # "acquired"]_vars

\* C7 (amended): while every slot is held by the renderer, no step of
\* get_free_frame returns a frame or changes a byte, and the step on the
\* last slot returns the error.
C7_FailsWithAllSlotsHeld ==
    [][(pc = "scan" /\ AllSlotsHeld) =>
          /\ pc' # "acquired"
          /\ frame' = None
          /\ buf' = buf
          /\ (scanIdx = NumFrames /\ scanIdx' # scanIdx) =>
                 (pc' = "idle" /\ result' = "err")]_vars

\* C7 witness: get_free_frame has failed with every slot held.
C7_Witness == pc = "idle" /\ result = "err" /\ AllSlotsHeld

\* C8 (as claimed): two results of last_published with no publish between
\* them are the same frame with the same bytes.
C8_LastPublishedIdempotent ==
    [][(observed # NoCall /\ observed' # NoCall) => observed' = observed]_vars

\* A slot the renderer holds no handle on is still ahead of the scan.
FreeAhead == \E s \in scanIdx .. NumFrames : held[s] = 0

\* C9: a scan that has a slot without renderer handles ahead of it (at its
\* start: any slot) does not end in the error, and keeps such a slot ahead of
\* it until it returns one.
C9_ReleasedSlotIsReused ==
    [][(pc = "scan" /\ FreeAhead) =>
          /\ ~(pc' = "idle" /\ result' = "err")
          /\ pc' = "scan" => FreeAhead']_vars

\* C9 witness: the tick before failed for want of a free frame, the renderer
\* let go of a slot, and this tick's get_free_frame has returned it.
C9_Witness ==
    /\ pc = "acquired" /\ result = "err"
    /\ \A s \in Slots \ {frame} : held[s] > 0

\* The FrameManager exists.
PoolExists == pc \notin {"start", "dropped"}

\* A handle on slot s is live.
Live(s) == held[s] > 0 \/ last_updated = s \/ frame = s \/ PoolExists

\* C10: while the pool exists every count is at least 1 and no storage has
\* been released; storage is never released while a handle on it is live.
C10_NoEarlyRelease ==
    /\ PoolExists => \A s \in Slots : Count(s) >= 1 /\ ~freed[s]
    /\ \A s \in Slots : freed[s] => ~Live(s)

\* C10 witness: after teardown one frame's storage is gone and another is
\* kept alive by a handle of the renderer.
C10_Witness ==
    /\ pc = "dropped"
    /\ \E s \in Slots : freed[s]
    /\ \E s \in Slots : held[s] > 0 /\ ~freed[s]

\* C11 (as claimed): when the engine's step faults, tick returns an error: the
\* driver is idle again, ready for the next tick, and last_updated is the
\* frame it was when the tick was entered.
C11_FaultIsReturned ==
    [][(pc = "cleared" /\ pc' \notin {"cleared", "scan"}) =>
          /\ pc' = "idle"
          /\ result' = "err"
          /\ Snapshot(last_updated)' = before]_vars

\* C12 (as claimed): a copy into a frame whose count is not 1 is refused with
\* an error and writes no byte.
C12_CopyChecksCount ==
    [][(frame # None /\ Count(frame) # 1) =>
          /\ buf' = buf
          /\ (pc = "acquired" /\ pc' # "acquired") =>
                 (pc' = "idle" /\ result' = "err")]_vars

\* The smallest number of pages that hold `bytes` bytes.
CeilPages(bytes) == (bytes + PageSize - 1) \div PageSize

\* C13 (as claimed): when new() grows the memory it asks for the smallest
\* number of pages that hold bytes_required.
C13_GrowthRoundsUp ==
    [][(pc = "start" /\ pc' = "built" /\ Len(memory) < BytesRequired) =>
          Len(memory') = Len(memory) + CeilPages(BytesRequired) * PageSize]_vars

\* A tick is running.
TickRunning ==
    pc \in {"cleared", "scan", "acquired", "copying", "copied", "published"}

\* C14 (as claimed): the state is Idle or Running, Idle from construction
\* until run() starts the driver, it changes only from Idle to Running at the
\* start and from Running to Idle at teardown, and it is Running while a tick
\* runs.
C14_IdleUntilStarted ==
    [][/\ PoolExists' =>
             /\ state' \in {"Idle", "Running"}
             /\ pc' = "built" => state' = "Idle"
             /\ TickRunning' => state' = "Running"
       /\ (PoolExists /\ state' # state) =>
             \/ state = "Idle" /\ state' = "Running" /\ pc = "built"
             \/ state = "Running" /\ state' = "Idle" /\ pc' = "dropped"]_vars

\* C14 (amended): from construction to teardown the state is Running.
C14_AlwaysRunning == PoolExists => state = "Running"

\* C14 witness: a tick after the first successful one is scanning, Running.
C14_Witness == pc = "scan" /\ succeeded /\ state = "Running"

\* C15: as long as no tick has returned Ok, last_updated is None (but for the
\* instant between a first tick's publish and its return) and the renderer
\* has been given no frame.
C15_NoFrameBeforeFirstSuccess ==
    ~succeeded =>
        /\ pc # "published" => last_updated = None
        /\ observed \in {NoCall, Snapshot(None)}

\* C15 witness: the renderer has looked and the first tick has failed.
C15_Witness ==
    /\ ~succeeded /\ pc = "panicked"
    /\ observed = Snapshot(None) /\ last_updated = None

\* The lowest-indexed slot whose count is 1, None when there is none.
LowestFree ==
    IF \E s \in Slots : Count(s) = 1
    THEN CHOOSE s \in Slots : Count(s) = 1 /\ \A t \in 1 .. (s - 1) : Count(t) # 1
    ELSE None

\* C16 (as claimed): get_free_frame returns the lowest-indexed slot whose count
\* is 1, raising that count by one and changing nothing else; it returns the
\* error, changing nothing, exactly when no slot has count 1.
C16_ReturnsLowestFree ==
    [][/\ (pc = "scan" /\ pc' = "acquired") =>
             /\ frame' = LowestFree
             /\ rc' = [rc EXCEPT ![frame'] = @ + 1]
             /\ buf' = buf
       /\ (pc = "scan" /\ pc' = "idle") =>
             /\ LowestFree = None
             /\ rc' = rc /\ buf' = buf /\ frame' = None
       /\ (pc = "scan" /\ scanIdx = NumFrames /\ scanIdx' # scanIdx
             /\ LowestFree = None) =>
             (pc' = "idle" /\ result' = "err")]_vars

\* C16 (amended): the slot get_free_frame returns has count 1, and it is the
\* lowest-indexed such slot unless a slot the scan had passed lost its last
\* renderer handle meanwhile; the count of the slot returned rises by one and
\* nothing else changes; the error is returned, changing nothing, when no
\* slot has count 1 or the only such slots were passed before they were
\* released; the scan always has a step to take.
C16_ReturnsLowestFreeUnlessRaced ==
    [][/\ (pc = "scan" /\ pc' = "acquired") =>
             /\ Count(frame') = 1
             /\ (frame' = LowestFree) <=> ~raced
             /\ rc' = [rc EXCEPT ![frame'] = @ + 1]
             /\ buf' = buf
       /\ (pc = "scan" /\ pc' = "idle") =>
             /\ (LowestFree = None) <=> ~raced
             /\ result' = "err"
             /\ rc' = rc /\ buf' = buf /\ frame' = None
       /\ (pc = "scan" /\ scanIdx = NumFrames /\ scanIdx' # scanIdx
             /\ LowestFree = None) =>
             (pc' = "idle" /\ result' = "err")
       /\ pc = "scan" => ENABLED TickScan]_vars

\* C16 witness: slot 1 was passed while held and released since, and the scan
\* is about to return slot 2.
C16_Witness == pc = "scan" /\ raced /\ scanIdx = 2 /\ Count(2) = 1

\* The counts after a swap of the published reference from slot prev (or
\* None) to the frame of the running tick.
Swapped(prev) ==
    [s \in Slots |-> rc[s] + (IF s = frame THEN 1 ELSE 0)
                           - (IF s = prev THEN 1 ELSE 0)]

\* C17 (as claimed): the publish step makes last_updated a new handle on the
\* tick's frame, raising its count by one, releases in the same step the
\* handle that was published when the tick was entered, lowering that frame's
\* count by one, and changes no byte.
C17_PublishSwaps ==
    [][(pc = "copied" /\ pc' = "published") =>
          /\ last_updated' = frame
          /\ rc' = Swapped(before.frame)
          /\ buf' = buf]_vars

\* The live handles on slot s: the pool's, last_updated, tick's `frame`, the
\* renderer's.
Handles(s) ==
    (IF PoolExists THEN 1 ELSE 0)
    + (IF last_updated = s THEN 1 ELSE 0)
    + (IF frame = s THEN 1 ELSE 0)
    + held[s]

\* C18: every count is the number of live handles on its slot, and between
\* two ticks (and after a failed one) tick's `frame` is gone.
C18_CountIsHandles ==
    /\ \A s \in Slots : Count(s) = Handles(s)
    /\ ~TickRunning => frame = None

\* C18 witness: a tick has failed with a handle of the renderer on every slot
\* and each count is back to 2.
C18_Witness ==
    /\ pc = "idle" /\ result = "err" /\ frame = None
    /\ \A s \in Slots : Count(s) = 2 /\ Handles(s) = 2

\* C19 (as claimed): when get_free_frame fails, every slot is held by the
\* renderer at that moment.
C19_FailsOnlyWhenAllHeld ==
    [][(pc = "scan" /\ pc' = "idle") => AllSlotsHeld]_vars

\* C19 (amended): the scan rejects a slot only when the renderer holds a
\* handle on it; the slots it has passed are still held unless one was
\* released meanwhile, and so is every slot when it fails.
C19_RejectsOnlyConsumerHeld ==
    [][/\ (pc = "scan" /\ scanIdx' # scanIdx /\ pc' # "acquired") =>
             held[scanIdx] > 0
       /\ (pc' = "scan" /\ ~raced') =>
             \A i \in 1 .. (scanIdx' - 1) : held'[i] > 0
       /\ (pc = "scan" /\ pc' = "idle") => (AllSlotsHeld \/ raced)]_vars

\* C19 witness: the scan is at the last slot, which is held, and slot 1 was
\* released after the scan had passed it.
C19_Witness ==
    /\ pc = "scan" /\ scanIdx = NumFrames /\ held[NumFrames] > 0
    /\ raced /\ held[1] = 0

====
